---- MODULE Spec2Model ----
(***************************************************************************)
(* AxilrodTellerForceKernel (multibody_kernel.h): the three-body kernel    *)
(* with its exact evaluation, its deterministic (finite-difference)        *)
(* pruning and its Monte Carlo pruning.                                    *)
(*                                                                         *)
(* Numbers.  A double is an integer count of a fixed unit, or one of the   *)
(* IEEE special values PosInf, NegInf, NaN, or Tiny (a positive subnormal).*)
(* Distances are powers of two, so every quotient of gradient_ is an exact *)
(* multiple of the unit: gradients are counted in units of                 *)
(* (3 * AXILROD_TELLER_COEFF / 8) / 2^7, and the accumulators that receive *)
(* gradient * coordinate in the same unit times the coordinate unit.       *)
(* Indices are 0-based as in the source.                                   *)
(***************************************************************************)
EXTENDS Integers, Sequences, FiniteSets, TLC

VARIABLES
    tree,           \* the regions handed to the kernel: ranges, counts, bounds, coordinate sums
    stat,           \* per region: the mutable statistics (stat())
    force,          \* the per-point force buffers of the exact evaluation
    distmat_,       \* kernel scratch: 3x3 matrix of squared distances
    index_orders_,  \* kernel scratch: index mapping used by gradient_ / force_
    indices,        \* the caller's index list (written by MonteCarloEval)
    pc,             \* "idle", or "mc" inside the sampling loop of MonteCarloEval
    mc,             \* the locals of the running MonteCarloEval call
    last,           \* the last completed call: what was called and what it returned
    ncalls,         \* number of calls started
    par             \* the callers that share the kernel, each inside its Eval

vars ==
    <<tree, stat, force, distmat_, index_orders_, indices, pc, mc, last, ncalls, par>>

(***************************************************************************)
(* Bounds of the model.                                                    *)
(***************************************************************************)
MaxCalls == 2

(***************************************************************************)
(* IEEE doubles.                                                           *)
(***************************************************************************)
PosInf == 2^30
NegInf == -PosInf
NaN == PosInf + 1
\* A positive subnormal: nonzero, but its product with any finite value
\* underflows (Tiny * Tiny = 0) and a nonzero value divided by it overflows.
Tiny == PosInf + 2
DblMax == 2^29

isnan(x) == x = NaN
isinf(x) == x \in {PosInf, NegInf}
IsFinite(x) == x \notin {PosInf, NegInf, NaN, Tiny}
IsPositive(x) == x \in {PosInf, Tiny} \/ (IsFinite(x) /\ x > 0)
IsNegative(x) == x = NegInf \/ (IsFinite(x) /\ x < 0)
fabs(x) == IF x < 0 THEN -x ELSE x

XMul(a, b) ==
    IF isnan(a) \/ isnan(b) THEN NaN
    ELSE IF isinf(a) \/ isinf(b)
         THEN IF a = 0 \/ b = 0 THEN NaN
              ELSE IF IsPositive(a) = IsPositive(b) THEN PosInf ELSE NegInf
    ELSE IF a = Tiny \/ b = Tiny
         THEN IF a = Tiny /\ b = Tiny THEN 0
              ELSE IF IsPositive(a) /\ IsPositive(b) THEN Tiny ELSE 0
    ELSE a * b

XDiv(a, b) ==
    IF isnan(a) \/ isnan(b) THEN NaN
    ELSE IF isinf(b) THEN (IF isinf(a) THEN NaN ELSE 0)
    ELSE IF b = 0 \/ b = Tiny
         THEN IF a = 0 THEN (IF b = 0 THEN NaN ELSE 0)
              ELSE IF a = Tiny /\ b = Tiny THEN NaN
              ELSE IF IsPositive(a) THEN PosInf ELSE NegInf
    ELSE IF isinf(a) THEN (IF IsPositive(a) = (b > 0) THEN PosInf ELSE NegInf)
    ELSE IF a = Tiny THEN (IF b > 0 THEN Tiny ELSE 0)
    ELSE IF (a >= 0) = (b > 0) THEN fabs(a) \div fabs(b) ELSE -(fabs(a) \div fabs(b))

XAdd(a, b) ==
    IF isnan(a) \/ isnan(b) THEN NaN
    ELSE IF isinf(a) THEN (IF isinf(b) /\ a # b THEN NaN ELSE a)
    ELSE IF isinf(b) THEN b
    ELSE IF a = Tiny THEN (IF b = 0 THEN Tiny ELSE b)
    ELSE IF b = Tiny THEN (IF a = 0 THEN Tiny ELSE a)
    ELSE a + b

\* sqrt on the squared distances of the model (perfect squares, Tiny, +Inf).
sqrt(x) ==
    IF x \in {PosInf, NaN, Tiny} THEN x
    ELSE IF x < 0 THEN NaN
    ELSE CHOOSE r \in 0..x : r * r <= x /\ (r + 1) * (r + 1) > x

\* math::Sqr
Sqr(x) == XMul(x, x)

(***************************************************************************)
(* Vectors (Vector, columns of Matrix) are tuples of length Dim.           *)
(***************************************************************************)
RECURSIVE SumTo(_, _)
SumTo(f, n) == IF n = 0 THEN 0 ELSE SumTo(f, n - 1) + f[n]

\* L1Norm_: the sum of the absolute values of the entries.
L1Norm_(v) == SumTo([i \in 1..Len(v) |-> fabs(v[i])], Len(v))

\* la::AddExpert(alpha, x, &y): y += alpha * x.
AddExpert(alpha, x, y) == [i \in 1..Len(y) |-> XAdd(y[i], XMul(alpha, x[i]))]

\* la::DistanceSqEuclidean
DistanceSqEuclidean(x, y) ==
    SumTo([i \in 1..Len(x) |-> (x[i] - y[i]) * (x[i] - y[i])], Len(x))

\* math::BinomialCoefficient(n, k)
RECURSIVE BinomialCoefficient(_, _)
BinomialCoefficient(n, k) ==
    IF k > n \/ k < 0 THEN 0
    ELSE IF k = 0 THEN 1
    ELSE (BinomialCoefficient(n - 1, k - 1) * n) \div k

(***************************************************************************)
(* The point set (const Matrix &data): one column per point.               *)
(***************************************************************************)
Data ==
    (0 :> <<1, -1>>) @@ (1 :> <<2, -1>>) @@ (2 :> <<3, -1>>) @@ (3 :> <<4, -1>>) @@
    (4 :> <<4, -1>>)
Points == DOMAIN Data
Dim == Len(Data[0])
ZeroVector == [i \in 1..Dim |-> 0]

Slots == 0..2
Order(a, b, c) == (0 :> a) @@ (1 :> b) @@ (2 :> c)

(***************************************************************************)
(* gradient_ (lines 453-535).  dm is the member distmat_, which holds the  *)
(* minimum squared distance of a pair above the diagonal and the maximum   *)
(* below it.  The common factor 3 nu / (8 dist) is CommonScale / dist and  *)
(* a term k / den is k * TermScale / den in the unit of the model.         *)
(***************************************************************************)
CommonScale == 2^1
TermScale == 2^6

Min2(a, b) == IF a < b THEN a ELSE b
Max2(a, b) == IF a > b THEN a ELSE b
XMul3(a, b, c) == XMul(XMul(a, b), c)
Term(k, den) == XDiv(k * TermScale, den)
XSum(s) == 
    LET RECURSIVE Go(_)
        Go(n) == IF n = 0 THEN 0 ELSE XAdd(Go(n - 1), s[n])
    IN  Go(Len(s))

\* The powers of one distance that the bounds are built from.
Powers(dsqd, dist) ==
    [ dsqd |-> dsqd,
      dist |-> dist,
      dcub |-> XMul(dsqd, dist),
      dqrt |-> Sqr(dsqd),
      dqui |-> XMul(dsqd, XMul(dsqd, dist)),
      dsix |-> XMul(dsqd, Sqr(dsqd)) ]

PowersAt(dm, row, col) == Powers(dm[<<row, col>>], sqrt(dm[<<row, col>>]))

\* Common factor in front.
min_common_factor(max1) == XDiv(CommonScale, max1.dist)
max_common_factor(min1) == XDiv(CommonScale, min1.dist)

\* The four bounds from the minimum and maximum powers of the three pairs.
GradientBounds(min1, max1, min2, max2, min3, max3) ==
    [ minimum_negative_gradient |->
        XMul(max_common_factor(min1), XSum(<<
            Term(-8, XMul3(min1.dqrt, min2.dcub, min3.dcub)),
            Term(-1, XMul(min2.dqui, min3.dqui)),
            Term(-1, XMul3(min1.dsqd, min2.dcub, min3.dqui)),
            Term(-1, XMul3(min1.dsqd, min2.dqui, min3.dcub)),
            Term(-3, XMul3(min1.dqrt, min2.dist, min3.dqui)),
            Term(-3, XMul3(min1.dqrt, min2.dqui, min3.dist)),
            Term(-5, XMul3(min1.dsix, min2.dist, min3.dcub)),
            Term(-5, XMul3(min1.dsix, min2.dcub, min3.dist)) >>)),
      maximum_negative_gradient |->
        XMul(min_common_factor(max1), XSum(<<
            Term(-8, XMul3(max1.dqrt, max2.dcub, max3.dcub)),
            Term(-1, XMul(max2.dqui, max3.dqui)),
            Term(-1, XMul3(max1.dsqd, max2.dcub, max3.dqui)),
            Term(-1, XMul3(max1.dsqd, max2.dqui, max3.dcub)),
            Term(-3, XMul3(max1.dqrt, max2.dist, max3.dqui)),
            Term(-3, XMul3(max1.dqrt, max2.dqui, max3.dist)),
            Term(-5, XMul3(max1.dsix, max2.dist, max3.dcub)),
            Term(-5, XMul3(max1.dsix, max2.dcub, max3.dist)) >>)),
      minimum_positive_gradient |->
        XMul(min_common_factor(max1), XSum(<<
            XDiv(XMul(5 * TermScale, min2.dist), XMul(max1.dsix, max3.dqui)),
            XDiv(XMul(5 * TermScale, min3.dist), XMul(max1.dsix, max2.dqui)),
            Term(6, XMul3(max1.dqrt, max2.dcub, max3.dcub)) >>)),
      maximum_positive_gradient |->
        XMul(max_common_factor(min1), XSum(<<
            XDiv(XMul(5 * TermScale, max2.dist), XMul(min1.dsix, min3.dqui)),
            XDiv(XMul(5 * TermScale, max3.dist), XMul(min1.dsix, min2.dqui)),
            Term(6, XMul3(min1.dqrt, min2.dcub, min3.dcub)) >>)) ]

\* The pair of positions a and b of index_orders: its minimum distance is
\* above the diagonal of dm and its maximum distance below it.
MinPowers(dm, a, b) == PowersAt(dm, Min2(a, b), Max2(a, b))
MaxPowers(dm, a, b) == PowersAt(dm, Max2(a, b), Min2(a, b))

gradient_(dm, index_orders) ==
    GradientBounds(
        \* Between the i-th node and the j-th node.
        MinPowers(dm, index_orders[0], index_orders[1]),
        MaxPowers(dm, index_orders[0], index_orders[1]),
        \* Between the i-th node and the k-th node.
        MinPowers(dm, index_orders[0], index_orders[2]),
        MaxPowers(dm, index_orders[0], index_orders[2]),
        \* Between the j-th node and the k-th node.
        MinPowers(dm, index_orders[1], index_orders[2]),
        MaxPowers(dm, index_orders[1], index_orders[2]))

(***************************************************************************)
(* EvalGradients (lines 619-650): three gradient_ calls on the member      *)
(* distmat_ (dm); the argument dsqd_matrix is not read.  The result holds  *)
(* the twelve bounds and the final contents of index_orders_.              *)
(***************************************************************************)
TwelveBounds(g1, g2, g3) ==
    [ min_negative_gradient1 |-> g1.minimum_negative_gradient,
      max_negative_gradient1 |-> g1.maximum_negative_gradient,
      min_positive_gradient1 |-> g1.minimum_positive_gradient,
      max_positive_gradient1 |-> g1.maximum_positive_gradient,
      min_negative_gradient2 |-> g2.minimum_negative_gradient,
      max_negative_gradient2 |-> g2.maximum_negative_gradient,
      min_positive_gradient2 |-> g2.minimum_positive_gradient,
      max_positive_gradient2 |-> g2.maximum_positive_gradient,
      min_negative_gradient3 |-> g3.minimum_negative_gradient,
      max_negative_gradient3 |-> g3.maximum_negative_gradient,
      min_positive_gradient3 |-> g3.minimum_positive_gradient,
      max_positive_gradient3 |-> g3.maximum_positive_gradient,
      index_orders |-> Order(2, 1, 0) ]

EvalGradients(dsqd_matrix, dm) ==
    TwelveBounds(gradient_(dm, Order(0, 1, 2)),
                 gradient_(dm, Order(0, 2, 1)),
                 gradient_(dm, Order(2, 1, 0)))

GradientNames ==
    { "min_negative_gradient1", "max_negative_gradient1",
      "min_positive_gradient1", "max_positive_gradient1",
      "min_negative_gradient2", "max_negative_gradient2",
      "min_positive_gradient2", "max_positive_gradient2",
      "min_negative_gradient3", "max_negative_gradient3",
      "min_positive_gradient3", "max_positive_gradient3" }

(***************************************************************************)
(* ComputeGradientComponentError_ (lines 325-348): half the width of each  *)
(* of the six intervals.                                                   *)
(***************************************************************************)
Half(x) == x \div 2

ComputeGradientComponentError_(g) ==
    [ negative_gradient1_error |->
          Half(g.max_negative_gradient1 - g.min_negative_gradient1),
      positive_gradient1_error |->
          Half(g.max_positive_gradient1 - g.min_positive_gradient1),
      negative_gradient2_error |->
          Half(g.max_negative_gradient2 - g.min_negative_gradient2),
      positive_gradient2_error |->
          Half(g.max_positive_gradient2 - g.min_positive_gradient2),
      negative_gradient3_error |->
          Half(g.max_negative_gradient3 - g.min_negative_gradient3),
      positive_gradient3_error |->
          Half(g.max_positive_gradient3 - g.min_positive_gradient3) ]

\* Faulty variant of ComputeNumTwoTuples_: a region paired with itself is
\* counted as if its points could be drawn twice.
NumTwoTuplesWithRepetition(tn, cnt) ==
    [ num_jk_pairs |-> cnt[tn[1]] * cnt[tn[2]],
      num_ik_pairs |-> cnt[tn[0]] * cnt[tn[2]],
      num_ij_pairs |-> cnt[tn[0]] * cnt[tn[1]] ]

(***************************************************************************)
(* ComputeNumTwoTuples_ (lines 791-829).  tn maps a slot to its region     *)
(* (tree_nodes), cnt a region to its count().                              *)
(***************************************************************************)
ComputeNumTwoTuples_(tn, cnt) ==
    IF tn[0] = tn[1]
    THEN IF tn[1] = tn[2]
         THEN LET c == BinomialCoefficient(cnt[tn[0]] - 1, 2)
              IN  [ num_jk_pairs |-> c, num_ik_pairs |-> c, num_ij_pairs |-> c ]
         ELSE LET p == (cnt[tn[0]] - 1) * cnt[tn[2]]
              IN  [ num_jk_pairs |-> p, num_ik_pairs |-> p,
                    num_ij_pairs |-> BinomialCoefficient(cnt[tn[0]], 2) ]
    ELSE IF tn[1] = tn[2]
         THEN [ num_jk_pairs |-> BinomialCoefficient(cnt[tn[1]], 2),
                num_ik_pairs |-> cnt[tn[0]] * (cnt[tn[2]] - 1),
                num_ij_pairs |-> cnt[tn[0]] * (cnt[tn[1]] - 1) ]
         ELSE [ num_jk_pairs |-> cnt[tn[1]] * cnt[tn[2]],
                num_ik_pairs |-> cnt[tn[0]] * cnt[tn[2]],
                num_ij_pairs |-> cnt[tn[0]] * cnt[tn[1]] ]

(***************************************************************************)
(* Prunable_ (lines 209-320).  relative_error is the rational              *)
(* relative_error[1] / relative_error[2]; a test  lhs <= relative_error *  *)
(* factor / total * magnitude  is decided on the cross-multiplied integers.*)
(***************************************************************************)
\* Faulty variant of WithinBudget: the budget shrinks as relative_error grows.
WithinInverseBudget(lhs, relative_error, factor, total, magnitude) ==
    lhs * total * relative_error[1] <= relative_error[2] * factor * magnitude

WithinBudget(lhs, relative_error, factor, total, magnitude) ==
    lhs * total * relative_error[2] <= relative_error[1] * factor * magnitude

first_node_prunable(st, tn, cnt, e, n, relative_error, total) ==
    /\ WithinBudget(e.negative_gradient1_error + e.negative_gradient2_error,
                    relative_error, 1, total,
                    fabs(st[tn[0]].negative_gradient1_u +
                         st[tn[0]].postponed_negative_gradient1_u))
    /\ WithinBudget(e.positive_gradient1_error + e.positive_gradient2_error,
                    relative_error, 1, total,
                    st[tn[0]].positive_gradient1_l +
                    st[tn[0]].postponed_positive_gradient1_l)
    /\ WithinBudget(cnt[tn[2]] * st[tn[1]].l1_norm_coordinate_sum_ *
                        e.negative_gradient1_error +
                    cnt[tn[1]] * st[tn[2]].l1_norm_coordinate_sum_ *
                        e.negative_gradient2_error,
                    relative_error, n.num_jk_pairs, total,
                    L1Norm_(st[tn[0]].negative_gradient2_u))
    /\ WithinBudget(cnt[tn[2]] * st[tn[1]].l1_norm_coordinate_sum_ *
                        e.positive_gradient1_error +
                    cnt[tn[1]] * st[tn[2]].l1_norm_coordinate_sum_ *
                        e.positive_gradient2_error,
                    relative_error, n.num_jk_pairs, total,
                    L1Norm_(st[tn[0]].positive_gradient2_l) +
                    L1Norm_(st[tn[0]].postponed_positive_gradient2_l))

\* The test of the second slot when it is not the region of the first.
second_node_test(st, tn, cnt, e, n, relative_error, total) ==
    /\ WithinBudget(e.negative_gradient1_error + e.negative_gradient3_error,
                    relative_error, 1, total,
                    fabs(st[tn[1]].negative_gradient1_u +
                         st[tn[1]].postponed_negative_gradient1_u))
    /\ WithinBudget(e.positive_gradient1_error + e.positive_gradient3_error,
                    relative_error, 1, total,
                    st[tn[1]].positive_gradient1_l +
                    st[tn[1]].postponed_positive_gradient1_l)
    /\ WithinBudget(cnt[tn[2]] * st[tn[0]].l1_norm_coordinate_sum_ *
                        e.negative_gradient1_error +
                    cnt[tn[0]] * st[tn[2]].l1_norm_coordinate_sum_ *
                        e.negative_gradient3_error,
                    relative_error, n.num_ik_pairs, total,
                    L1Norm_(st[tn[1]].negative_gradient2_u) +
                    L1Norm_(st[tn[1]].postponed_negative_gradient2_u))
    /\ WithinBudget(cnt[tn[2]] * st[tn[0]].l1_norm_coordinate_sum_ *
                        e.positive_gradient1_error +
                    cnt[tn[0]] * st[tn[2]].l1_norm_coordinate_sum_ *
                        e.positive_gradient3_error,
                    relative_error, n.num_ik_pairs, total,
                    L1Norm_(st[tn[1]].positive_gradient2_l) +
                    L1Norm_(st[tn[1]].postponed_positive_gradient2_l))

\* The test of the third slot when it is not the region of the second.
third_node_test(st, tn, cnt, e, n, relative_error, total) ==
    /\ WithinBudget(e.negative_gradient2_error + e.negative_gradient3_error,
                    relative_error, 1, total,
                    fabs(st[tn[2]].negative_gradient1_u +
                         st[tn[2]].postponed_negative_gradient1_u))
    /\ WithinBudget(e.positive_gradient2_error + e.positive_gradient3_error,
                    relative_error, 1, total,
                    st[tn[2]].positive_gradient1_l +
                    st[tn[2]].postponed_positive_gradient1_l)
    /\ WithinBudget(cnt[tn[1]] * st[tn[0]].l1_norm_coordinate_sum_ *
                        e.negative_gradient2_error +
                    cnt[tn[0]] * st[tn[1]].l1_norm_coordinate_sum_ *
                        e.negative_gradient3_error,
                    relative_error, n.num_ij_pairs, total,
                    L1Norm_(st[tn[2]].negative_gradient2_u) +
                    L1Norm_(st[tn[2]].postponed_negative_gradient2_u))
    /\ WithinBudget(cnt[tn[1]] * st[tn[0]].l1_norm_coordinate_sum_ *
                        e.positive_gradient2_error +
                    cnt[tn[0]] * st[tn[1]].l1_norm_coordinate_sum_ *
                        e.positive_gradient3_error,
                    relative_error, n.num_ij_pairs, total,
                    L1Norm_(st[tn[2]].positive_gradient2_l) +
                    L1Norm_(st[tn[2]].postponed_positive_gradient2_l))

\* Faulty variant of Prunable_: the second slot is tested even when it is
\* the region of the first.
PrunableWithoutReuse(st, tn, cnt, e, n, relative_error, total) ==
    /\ first_node_prunable(st, tn, cnt, e, n, relative_error, total)
    /\ second_node_test(st, tn, cnt, e, n, relative_error, total)
    /\ tn[2] = tn[1] \/ third_node_test(st, tn, cnt, e, n, relative_error, total)

Prunable_(st, tn, cnt, e, n, relative_error, total) ==
    LET first == first_node_prunable(st, tn, cnt, e, n, relative_error, total)
    IN  IF ~first THEN FALSE
        ELSE LET second_node_prunable ==
                     IF tn[1] = tn[0] THEN first
                     ELSE second_node_test(st, tn, cnt, e, n, relative_error, total)
             IN  IF ~second_node_prunable THEN FALSE
                 ELSE IF tn[2] = tn[1] THEN second_node_prunable
                      ELSE third_node_test(st, tn, cnt, e, n, relative_error, total)

(***************************************************************************)
(* Prune_ (lines 48-204).  One slot's update of its region's postponed     *)
(* statistics: a and b are the two gradients that touch the slot, each     *)
(* with the count and the coordinate sum its vector term is weighted by.   *)
(***************************************************************************)
Bounds(g, k) ==
    CASE k = 1 -> [ min_negative |-> g.min_negative_gradient1,
                    max_negative |-> g.max_negative_gradient1,
                    min_positive |-> g.min_positive_gradient1,
                    max_positive |-> g.max_positive_gradient1 ]
      [] k = 2 -> [ min_negative |-> g.min_negative_gradient2,
                    max_negative |-> g.max_negative_gradient2,
                    min_positive |-> g.min_positive_gradient2,
                    max_positive |-> g.max_positive_gradient2 ]
      [] k = 3 -> [ min_negative |-> g.min_negative_gradient3,
                    max_negative |-> g.max_negative_gradient3,
                    min_positive |-> g.min_positive_gradient3,
                    max_positive |-> g.max_positive_gradient3 ]

\* Faulty variant of Postpone: the exact accumulators receive the bounds,
\* not the mean of the bounds.
PostponeBoundsAsEstimate(s, num_pairs, a, count_a, sum_a, b, count_b, sum_b) ==
    [ s EXCEPT
        !.postponed_negative_gradient1_e = @ + num_pairs *
            (a.max_negative + b.max_negative),
        !.postponed_negative_gradient1_u = @ + num_pairs *
            (a.max_negative + b.max_negative),
        !.postponed_positive_gradient1_l = @ + num_pairs *
            (a.min_positive + b.min_positive),
        !.postponed_positive_gradient1_e = @ + num_pairs *
            (a.min_positive + b.min_positive) ]

\* Faulty variant of Postpone: the upper bound goes to the region's own
\* accumulator instead of the postponed one.
PostponeIntoOwn(s, num_pairs, a, count_a, sum_a, b, count_b, sum_b) ==
    [ s EXCEPT
        !.postponed_negative_gradient1_e = @ + num_pairs *
            Half(a.min_negative + a.max_negative + b.min_negative + b.max_negative),
        !.negative_gradient1_u = @ + num_pairs *
            (a.max_negative + b.max_negative) ]

Postpone(s, num_pairs, a, count_a, sum_a, b, count_b, sum_b) ==
    [ s EXCEPT
        !.postponed_negative_gradient1_e = @ + num_pairs *
            Half(a.min_negative + a.max_negative + b.min_negative + b.max_negative),
        !.postponed_negative_gradient1_u = @ + num_pairs *
            (a.max_negative + b.max_negative),
        !.postponed_positive_gradient1_l = @ + num_pairs *
            (a.min_positive + b.min_positive),
        !.postponed_positive_gradient1_e = @ + num_pairs *
            Half(a.min_positive + a.max_positive + b.min_positive + b.max_positive),
        !.postponed_negative_gradient2_e =
            AddExpert(count_b * Half(b.min_negative + b.max_negative), sum_b,
                AddExpert(count_a * Half(a.min_negative + a.max_negative), sum_a, @)),
        !.postponed_negative_gradient2_u =
            AddExpert(count_b * b.max_negative, sum_b,
                AddExpert(count_a * a.max_negative, sum_a, @)),
        !.postponed_positive_gradient2_l =
            AddExpert(count_b * b.min_positive, sum_b,
                AddExpert(count_a * a.min_positive, sum_a, @)),
        !.postponed_positive_gradient2_e =
            AddExpert(count_b * Half(b.min_positive + b.max_positive), sum_b,
                AddExpert(count_a * Half(a.min_positive + a.max_positive), sum_a, @)) ]

\* Faulty variant of PruneFirstNode: the contribution is taken from the
\* region instead of added to it.
PruneFirstNodeWithdrawn(st, tn, cnt, g, n) ==
    [ st EXCEPT ![tn[0]] =
        Postpone(@, 0 - n.num_jk_pairs,
                 Bounds(g, 1), cnt[tn[2]], st[tn[1]].coordinate_sum_,
                 Bounds(g, 2), cnt[tn[1]], st[tn[2]].coordinate_sum_) ]

\* First the i-th node (lines 57-103).
PruneFirstNode(st, tn, cnt, g, n) ==
    [ st EXCEPT ![tn[0]] =
        Postpone(@, n.num_jk_pairs,
                 Bounds(g, 1), cnt[tn[2]], st[tn[1]].coordinate_sum_,
                 Bounds(g, 2), cnt[tn[1]], st[tn[2]].coordinate_sum_) ]

\* Faulty variant of PruneSecondNode: the vector term of the i-th node is
\* weighted by what was postponed to it, not by its coordinate sum.
PruneSecondNodeFromPostponed(st, tn, cnt, g, n) ==
    IF tn[1] # tn[0]
    THEN [ st EXCEPT ![tn[1]] =
             Postpone(@, n.num_ik_pairs,
                      Bounds(g, 1), cnt[tn[2]], st[tn[0]].postponed_negative_gradient2_u,
                      Bounds(g, 3), cnt[tn[0]], st[tn[2]].coordinate_sum_) ]
    ELSE st

\* Then the j-th node, if it is not the same as the i-th node (lines 105-153).
PruneSecondNode(st, tn, cnt, g, n) ==
    IF tn[1] # tn[0]
    THEN [ st EXCEPT ![tn[1]] =
             Postpone(@, n.num_ik_pairs,
                      Bounds(g, 1), cnt[tn[2]], st[tn[0]].coordinate_sum_,
                      Bounds(g, 3), cnt[tn[0]], st[tn[2]].coordinate_sum_) ]
    ELSE st

\* Faulty variant of PruneThirdNode: the third region receives nothing.
PruneThirdNodeSkipped(st, tn, cnt, g, n) == st

\* Then the k-th node (lines 155-203).
PruneThirdNode(st, tn, cnt, g, n) ==
    IF tn[2] # tn[1]
    THEN [ st EXCEPT ![tn[2]] =
             Postpone(@, n.num_ij_pairs,
                      Bounds(g, 2), cnt[tn[1]], st[tn[0]].coordinate_sum_,
                      Bounds(g, 3), cnt[tn[0]], st[tn[1]].coordinate_sum_) ]
    ELSE st

\* Faulty variant of Prune_: nothing is propagated.
PruneNothing(st, tn, cnt, g, n) == st

Prune_(st, tn, cnt, g, n) ==
    PruneThirdNode(PruneSecondNode(PruneFirstNode(st, tn, cnt, g, n),
                                   tn, cnt, g, n),
                   tn, cnt, g, n)

(***************************************************************************)
(* The regions (TTree nodes) and their bounds (TBound).  A region has an   *)
(* index range [begin, end) into the point set and count() = end - begin.  *)
(* MinDistanceSq / MaxDistanceSq answer from the table tr.bound, which     *)
(* holds <<min, max>> for each pair of different regions; a region is at   *)
(* minimum distance 0 from itself.                                         *)
(***************************************************************************)
Nodes == {1, 2, 3}
Pair(a, b) == IF a < b THEN <<a, b>> ELSE <<b, a>>

Count(tr) == [n \in Nodes |-> tr.end[n] - tr.begin[n]]

MinDistanceSq(tr, a, b) == IF a = b THEN 0 ELSE tr.bound[Pair(a, b)][1]
MaxDistanceSq(tr, a, b) == IF a = b THEN tr.diameter[a] ELSE tr.bound[Pair(a, b)][2]

\* Three single-point regions; the bound of a point is the point.
PointTree ==
    LET b == (1 :> 0) @@ (2 :> 1) @@ (3 :> 2)
        d(x, y) == DistanceSqEuclidean(Data[b[x]], Data[b[y]])
    IN  [ begin |-> b,
          end |-> [n \in Nodes |-> b[n] + 1],
          diameter |-> [n \in Nodes |-> 0],
          bound |-> [p \in {<<1, 2>>, <<1, 3>>, <<2, 3>>} |->
                        <<d(p[1], p[2]), d(p[1], p[2])>>] ]

\* Regions of 2, 1 and 1 points, with the answers of their bounds.
BoxTree(b12, b13, b23) ==
    [ begin |-> (1 :> 0) @@ (2 :> 2) @@ (3 :> 3),
      end |-> (1 :> 2) @@ (2 :> 3) @@ (3 :> 4),
      diameter |-> (1 :> 1) @@ (2 :> 0) @@ (3 :> 0),
      bound |-> (<<1, 2>> :> b12) @@ (<<1, 3>> :> b13) @@ (<<2, 3>> :> b23) ]

\* Regions of a tree that overlap: region 3 holds region 1 and the first
\* point of region 2.  MonteCarloEval samples from the ranges.
SampleTree ==
    [ begin |-> (1 :> 0) @@ (2 :> 2) @@ (3 :> 0),
      end |-> (1 :> 2) @@ (2 :> 4) @@ (3 :> 3),
      diameter |-> (1 :> 1) @@ (2 :> 1) @@ (3 :> 4),
      bound |-> (<<1, 2>> :> <<1, 9>>) @@ (<<1, 3>> :> <<0, 4>>) @@
                (<<2, 3>> :> <<0, 9>>) ]

Trees ==
    { PointTree,
      BoxTree(<<1, 4>>, <<1, 1>>, <<1, 1>>),
      BoxTree(<<1, 1>>, <<1, 1>>, <<1, 4>>),
      BoxTree(<<0, 1>>, <<1, 1>>, <<1, 4>>),
      BoxTree(<<Tiny, 1>>, <<1, 1>>, <<1, 1>>),
      BoxTree(<<4, PosInf>>, <<1, 1>>, <<Tiny, Tiny>>) }

\* The coordinate sum of the points of a range, and the sum of their L1 norms.
RECURSIVE CoordinateSum(_, _)
CoordinateSum(lo, hi) ==
    IF lo >= hi THEN ZeroVector
    ELSE AddExpert(1, Data[hi - 1], CoordinateSum(lo, hi - 1))

RECURSIVE L1NormSum(_, _)
L1NormSum(lo, hi) ==
    IF lo >= hi THEN 0 ELSE L1NormSum(lo, hi - 1) + L1Norm_(Data[hi - 1])

\* The statistics of a region before any contribution is postponed to it.
\* own is what the region has accumulated so far: <<negative_gradient1_u,
\* positive_gradient1_l, negative_gradient2_u, positive_gradient2_l>>.
InitStat(tr, n, own) ==
    [ negative_gradient1_u |-> own[1],
      positive_gradient1_l |-> own[2],
      negative_gradient2_u |-> own[3],
      positive_gradient2_l |-> own[4],
      postponed_negative_gradient1_e |-> 0,
      postponed_negative_gradient1_u |-> 0,
      postponed_positive_gradient1_l |-> 0,
      postponed_positive_gradient1_e |-> 0,
      postponed_negative_gradient2_e |-> ZeroVector,
      postponed_negative_gradient2_u |-> ZeroVector,
      postponed_positive_gradient2_l |-> ZeroVector,
      postponed_positive_gradient2_e |-> ZeroVector,
      coordinate_sum_ |-> CoordinateSum(tr.begin[n], tr.end[n]),
      l1_norm_coordinate_sum_ |-> L1NormSum(tr.begin[n], tr.end[n]) ]

\* What the regions have accumulated when the kernel is first called:
\* nothing, or the contributions of earlier exact evaluations.
NothingOwned == [n \in Nodes |-> <<0, 0, ZeroVector, ZeroVector>>]

OwnStats ==
    { NothingOwned,
      (1 :> <<-8000, 8000, <<-90000, 30000>>, <<90000, -30000>> >>) @@
      (2 :> <<-8000, 8000, <<-90000, 30000>>, <<90000, -30000>> >>) @@
      (3 :> <<-4000, 4000, <<-60000, 20000>>, <<60000, -20000>> >>),
      (1 :> <<-8000, 8000, <<-90000, 30000>>, <<90000, -30000>> >>) @@
      (2 :> <<-8000, 8000, <<-90000, 30000>>, <<90000, -30000>> >>) @@
      (3 :> <<-8000, 8000, <<-12000, 4000>>, <<60000, -20000>> >>) }

\* The inputs of the calls.
RelativeErrors == { <<1, 2>>, <<1, 1>> }
ZScores == { 2 }
TotalTuples == { 1 }
Triples == [Slots -> Nodes]
NodeTriples ==
    { Order(1, 2, 3), Order(2, 3, 1), Order(3, 2, 1),
      Order(1, 1, 1), Order(1, 1, 2), Order(1, 2, 2), Order(1, 2, 1) }
PointTriples == { Order(0, 1, 2), Order(2, 1, 0), Order(1, 0, 2), Order(0, 3, 4) }
SampleErrors == { <<1, 1>> }
SampleTriples == { Order(1, 1, 2), Order(3, 3, 3), Order(1, 2, 3) }

(***************************************************************************)
(* EvalMinMaxSquaredDistances (lines 574-590 for regions, 594-611 for      *)
(* points): the six off-diagonal entries of distmat_ are written, the      *)
(* diagonal is left as it was.                                             *)
(***************************************************************************)
\* Faulty variant of EvalMinMaxSquaredDistancesNodes: the minimum and the
\* maximum distances are stored in each other's triangle.
EvalMaxMinSquaredDistancesNodes(dm, tr, tn) ==
    [ p \in DOMAIN dm |->
        IF p[1] < p[2] THEN MaxDistanceSq(tr, tn[p[1]], tn[p[2]])
        ELSE IF p[1] > p[2] THEN MinDistanceSq(tr, tn[p[2]], tn[p[1]])
        ELSE dm[p] ]

EvalMinMaxSquaredDistancesNodes(dm, tr, tn) ==
    [ p \in DOMAIN dm |->
        IF p[1] < p[2] THEN MinDistanceSq(tr, tn[p[1]], tn[p[2]])
        ELSE IF p[1] > p[2] THEN MaxDistanceSq(tr, tn[p[2]], tn[p[1]])
        ELSE dm[p] ]

\* Faulty variant of EvalMinMaxSquaredDistancesPoints: only the entries above
\* the diagonal are written.
EvalMinSquaredDistancesPoints(dm, ix) ==
    [ p \in DOMAIN dm |->
        IF p[1] < p[2] THEN DistanceSqEuclidean(Data[ix[p[1]]], Data[ix[p[2]]])
        ELSE dm[p] ]

EvalMinMaxSquaredDistancesPoints(dm, ix) ==
    [ p \in DOMAIN dm |->
        IF p[1] # p[2] THEN DistanceSqEuclidean(Data[ix[p[1]]], Data[ix[p[2]]])
        ELSE dm[p] ]

(***************************************************************************)
(* Eval, the pruning overload (lines 954-1045), as a function of the state *)
(* it reads: the result holds the return value and what the call leaves in *)
(* the statistics and in the scratch members.                              *)
(***************************************************************************)
NoErrors ==
    [ negative_gradient1_error |-> 0, positive_gradient1_error |-> 0,
      negative_gradient2_error |-> 0, positive_gradient2_error |-> 0,
      negative_gradient3_error |-> 0, positive_gradient3_error |-> 0 ]

NoBounds == [f \in GradientNames |-> 0]

NonFinite(g) == \E f \in GradientNames : isnan(g[f]) \/ isinf(g[f])

\* Faulty variant of ZeroMinimum: the zero check is left out.
ZeroMinimumIgnored(dm) == FALSE

\* Lines 962-968: some minimum squared distance (above the diagonal) is zero.
ZeroMinimum(dm) == \E i \in 0..1 : \E j \in (i + 1)..2 : dm[<<i, j>>] = 0

\* Faulty variant of EvalPairs: the first region is counted in the place
\* of the second.
EvalPairsOfFirst(tr, tn) ==
    [ num_ik_pairs |-> Count(tr)[tn[0]] * Count(tr)[tn[2]],
      num_ij_pairs |-> Count(tr)[tn[0]] * Count(tr)[tn[1]],
      num_jk_pairs |-> Count(tr)[tn[0]] * Count(tr)[tn[2]] ]

\* Lines 1022-1024: the pair counts of the pruning Eval.

EvalPairs(tr, tn) ==
    [ num_ik_pairs |-> Count(tr)[tn[0]] * Count(tr)[tn[2]],
      num_ij_pairs |-> Count(tr)[tn[0]] * Count(tr)[tn[1]],
      num_jk_pairs |-> Count(tr)[tn[1]] * Count(tr)[tn[2]] ]

Untouched(st, dm, io0) ==
    [ ret |-> FALSE, stat |-> st, distmat |-> dm, index_orders |-> io0,
      evaluated |-> FALSE, pruned |-> FALSE, errors |-> NoErrors,
      bounds |-> NoBounds ]

Evaluated(st, dm, g) ==
    [ ret |-> FALSE, stat |-> st, distmat |-> dm,
      index_orders |-> g.index_orders, evaluated |-> TRUE, pruned |-> FALSE,
      errors |-> NoErrors, bounds |-> [f \in GradientNames |-> g[f]] ]

\* Lines 1020-1044: the pair counts, Prunable_ and, when it holds, Prune_.
EvalFromErrors(tr, st, dm, tn, relative_error, total, g, e, n) ==
    IF Prunable_(st, tn, Count(tr), e, n, relative_error, total)
    THEN [ Evaluated(st, dm, g) EXCEPT
             !.ret = TRUE, !.pruned = TRUE, !.errors = e,
             !.stat = Prune_(st, tn, Count(tr), g, n) ]
    ELSE [ Evaluated(st, dm, g) EXCEPT !.errors = e ]

\* Lines 988-1018: the test for NaN and infinity, then the errors.
EvalFromGradients(tr, st, dm, tn, relative_error, total, g) ==
    IF NonFinite(g) THEN Evaluated(st, dm, g)
    ELSE EvalFromErrors(tr, st, dm, tn, relative_error, total, g,
                        ComputeGradientComponentError_(g), EvalPairs(tr, tn))

\* Faulty variant of EvalFromDistances: the gradients are evaluated
\* without the test for a zero minimum distance.
EvalFromDistancesUntested(tr, st, dm, io0, tn, relative_error, total) ==
    EvalFromGradients(tr, st, dm, tn, relative_error, total, EvalGradients(dm, dm))

\* Lines 961-986: do not prune if any of the minimum distances is zero;
\* otherwise evaluate the gradients.
EvalFromDistances(tr, st, dm, io0, tn, relative_error, total) ==
    IF ZeroMinimum(dm) THEN Untouched(st, dm, io0)
    ELSE EvalFromGradients(tr, st, dm, tn, relative_error, total,
                           EvalGradients(dm, dm))

EvalOutcome(tr, st, dm0, io0, tn, relative_error, total) ==
    EvalFromDistances(tr, st, EvalMinMaxSquaredDistancesNodes(dm0, tr, tn),
                      io0, tn, relative_error, total)

Eval(tn, relative_error, z_score, total) ==
    /\ pc = "idle"
    /\ ncalls < MaxCalls
    /\ \E r \in { EvalOutcome(tree, stat, distmat_, index_orders_, tn,
                              relative_error, total) } :
           /\ stat' = r.stat
           /\ distmat_' = r.distmat
           /\ index_orders_' = r.index_orders
           /\ last' = [ op |-> "Eval", tree_nodes |-> tn, indices |-> indices,
                        relative_error |-> relative_error, total |-> total,
                        ret |-> r.ret, evaluated |-> r.evaluated,
                        pruned |-> r.pruned, errors |-> r.errors,
                        bounds |-> r.bounds, samples |-> 0 ]
    /\ ncalls' = ncalls + 1
    /\ UNCHANGED <<tree, force, indices, pc, mc, par>>

(***************************************************************************)
(* force_ (lines 403-451): the contribution to the point in the first      *)
(* position of index_orders_.                                              *)
(***************************************************************************)
force_(f, ix, io, negative_gradient1, positive_gradient1, negative_gradient2, positive_gradient2) ==
    LET p == ix[io[0]]
        x1 == Data[ix[io[1]]]
        x2 == Data[ix[io[2]]]
    IN  [ f EXCEPT
            !.negative_force1_e[p] = XAdd(@, XAdd(negative_gradient1, negative_gradient2)),
            !.negative_force1_u[p] = XAdd(@, XAdd(negative_gradient1, negative_gradient2)),
            !.positive_force1_l[p] = XAdd(@, XAdd(positive_gradient1, positive_gradient2)),
            !.positive_force1_e[p] = XAdd(@, XAdd(positive_gradient1, positive_gradient2)),
            !.negative_force2_e[p] =
                AddExpert(negative_gradient2, x2, AddExpert(negative_gradient1, x1, @)),
            !.negative_force2_u[p] =
                AddExpert(negative_gradient2, x2, AddExpert(negative_gradient1, x1, @)),
            !.positive_force2_e[p] =
                AddExpert(positive_gradient2, x2, AddExpert(positive_gradient1, x1, @)),
            !.positive_force2_l[p] =
                AddExpert(positive_gradient2, x2, AddExpert(positive_gradient1, x1, @)) ]

\* Faulty variant of EvalContributions: the second point receives the
\* gradients of the first.
EvalContributionsOfFirst(f, ix, g) ==
    LET f1 == force_(f, ix, Order(0, 1, 2),
                     g.min_negative_gradient1, g.min_positive_gradient1,
                     g.min_negative_gradient2, g.min_positive_gradient2)
        f2 == force_(f1, ix, Order(1, 0, 2),
                     g.min_negative_gradient1, g.min_positive_gradient1,
                     g.min_negative_gradient2, g.min_positive_gradient2)
    IN  force_(f2, ix, Order(2, 0, 1),
               g.min_negative_gradient2, g.min_positive_gradient2,
               g.min_negative_gradient3, g.min_positive_gradient3)

\* EvalContributions (lines 652-694): force_ for each of the three points.
EvalContributions(f, ix, g) ==
    LET f1 == force_(f, ix, Order(0, 1, 2),
                     g.min_negative_gradient1, g.min_positive_gradient1,
                     g.min_negative_gradient2, g.min_positive_gradient2)
        f2 == force_(f1, ix, Order(1, 0, 2),
                     g.min_negative_gradient1, g.min_positive_gradient1,
                     g.min_negative_gradient3, g.min_positive_gradient3)
    IN  force_(f2, ix, Order(2, 0, 1),
               g.min_negative_gradient2, g.min_positive_gradient2,
               g.min_negative_gradient3, g.min_positive_gradient3)

\* Eval, the exact overload (lines 699-726).  The maximum pointers are
\* NULL: only the minimum bounds are outputs, and they are the gradients.
ExactFromDistances(f, dm, ix) ==
    [ force |-> EvalContributions(f, ix, EvalGradients(dm, dm)),
      distmat |-> dm, index_orders |-> Order(2, 0, 1) ]

ExactOutcome(f, dm0, ix) ==
    ExactFromDistances(f, EvalMinMaxSquaredDistancesPoints(dm0, ix), ix)

EvalExact(ix) ==
    /\ pc = "idle"
    /\ ncalls < MaxCalls
    /\ \E r \in { ExactOutcome(force, distmat_, ix) } :
           /\ force' = r.force
           /\ distmat_' = r.distmat
           /\ index_orders_' = r.index_orders
    /\ last' = [ op |-> "EvalExact", tree_nodes |-> last.tree_nodes,
                 indices |-> ix, relative_error |-> last.relative_error,
                 total |-> last.total, ret |-> FALSE, evaluated |-> TRUE,
                 pruned |-> FALSE, errors |-> NoErrors, bounds |-> NoBounds,
                 samples |-> 0 ]
    /\ ncalls' = ncalls + 1
    /\ UNCHANGED <<tree, stat, indices, pc, mc, par>>

(***************************************************************************)
(* Init (lines 567-570) allocates the scratch members and does not fill    *)
(* them: their first contents are whatever the memory holds.               *)
(***************************************************************************)
ZeroForce ==
    [ negative_force1_e |-> [p \in Points |-> 0],
      negative_force1_u |-> [p \in Points |-> 0],
      positive_force1_l |-> [p \in Points |-> 0],
      positive_force1_e |-> [p \in Points |-> 0],
      negative_force2_e |-> [p \in Points |-> ZeroVector],
      negative_force2_u |-> [p \in Points |-> ZeroVector],
      positive_force2_l |-> [p \in Points |-> ZeroVector],
      positive_force2_e |-> [p \in Points |-> ZeroVector] ]

Uninitialized ==
    { [ distmat |-> [p \in Slots \X Slots |-> 0], index_orders |-> Order(0, 0, 0) ],
      [ distmat |-> [p \in Slots \X Slots |-> NaN], index_orders |-> Order(2, 1, 0) ] }

NoCall ==
    [ op |-> "none", tree_nodes |-> Order(1, 1, 1), indices |-> Order(0, 0, 0),
      relative_error |-> <<0, 1>>, total |-> 1, ret |-> FALSE,
      evaluated |-> FALSE, pruned |-> FALSE, errors |-> NoErrors,
      bounds |-> NoBounds, samples |-> 0 ]

(***************************************************************************)
(* MonteCarloEval (lines 834-948).                                         *)
(***************************************************************************)
BatchSize == 25

\* math::RandInt(lo, hi): the values a draw can return.
RandInt(lo, hi) == lo..(hi - 1)

\* Faulty variant of ValidSample: the indices need only differ from their
\* neighbours.
ValidSampleUnordered(ix) == ix[0] # ix[1] /\ ix[1] # ix[2]

\* Faulty variant of ValidSample: equal indices pass.
ValidSampleNotStrict(ix) == ix[0] <= ix[1] /\ ix[1] <= ix[2]

\* The test of line 884: the sample is folded in when it holds.
ValidSample(ix) == ix[0] < ix[1] /\ ix[1] < ix[2]

XSub(a, b) == XAdd(a, XMul(-1, b))

\* The running order statistics, sum and squared sum of one gradient
\* component as they are initialized on lines 856-873.
InitialRun ==
    [ k \in 1..3 |->
        [ min_negative |-> 0, max_negative |-> -DblMax,
          min_positive |-> DblMax, max_positive |-> 0,
          negative_sum |-> 0, negative_squared_sum |-> 0,
          positive_sum |-> 0, positive_squared_sum |-> 0 ] ]

\* UpdateStatistics_ (lines 728-789); g holds the sampled gradients in
\* its min_ fields.
UpdateStatistics_(run, g) ==
    [ k \in 1..3 |->
        LET b == Bounds(g, k)
            r == run[k]
        IN  [ min_negative |-> Min2(r.min_negative, b.min_negative),
              max_negative |-> Max2(r.max_negative, b.min_negative),
              min_positive |-> Min2(r.min_positive, b.min_positive),
              max_positive |-> Max2(r.max_positive, b.min_positive),
              negative_sum |-> XAdd(r.negative_sum, b.min_negative),
              negative_squared_sum |->
                  XAdd(r.negative_squared_sum, XMul(b.min_negative, b.min_negative)),
              positive_sum |-> XAdd(r.positive_sum, b.min_positive),
              positive_squared_sum |->
                  XAdd(r.positive_squared_sum, XMul(b.min_positive, b.min_positive)) ] ]

\* ComputeMonteCarloGradientComponentError_ (lines 352-401).
SampleDeviation(sum, squared_sum, num_samples, z_score) ==
    LET variance == XDiv(XSub(squared_sum, XDiv(XMul(sum, sum), num_samples)),
                         num_samples - 1)
    IN  XMul(z_score, sqrt(variance))

ComputeMonteCarloGradientComponentError_(run, num_samples, z_score) ==
    LET neg(k) == SampleDeviation(run[k].negative_sum, run[k].negative_squared_sum,
                                  num_samples, z_score)
        pos(k) == SampleDeviation(run[k].positive_sum, run[k].positive_squared_sum,
                                  num_samples, z_score)
    IN  [ negative_gradient1_error |-> neg(1), positive_gradient1_error |-> pos(1),
          negative_gradient2_error |-> neg(2), positive_gradient2_error |-> pos(2),
          negative_gradient3_error |-> neg(3), positive_gradient3_error |-> pos(3) ]

\* The locals of MonteCarloEval when no call is running.
NoSampling ==
    [ tree_nodes |-> Order(1, 1, 1), relative_error |-> <<0, 1>>, z_score |-> 0,
      total |-> 1, num_jk_pairs |-> 0, num_ik_pairs |-> 0, num_ij_pairs |-> 0,
      prunable |-> FALSE, current_num_samples |-> 0,
      num_sample_trials_remaining |-> 0, run |-> InitialRun,
      errors |-> NoErrors ]

\* Lines 839-873: the pair counts and the initial values of the locals.
MonteCarloEval(tn, relative_error, z_score, total) ==
    /\ pc = "idle"
    /\ pc' = "mc"
    /\ LET n == ComputeNumTwoTuples_(tn, Count(tree))
       IN  mc' = [ tree_nodes |-> tn, relative_error |-> relative_error,
                   z_score |-> z_score, total |-> total,
                   num_jk_pairs |-> n.num_jk_pairs,
                   num_ik_pairs |-> n.num_ik_pairs,
                   num_ij_pairs |-> n.num_ij_pairs,
                   prunable |-> FALSE, current_num_samples |-> 0,
                   num_sample_trials_remaining |-> BatchSize,
                   run |-> InitialRun, errors |-> NoErrors ]
    /\ last' = NoCall
    /\ UNCHANGED <<tree, stat, force, distmat_, index_orders_, indices, ncalls, par>>

\* Lines 888-943: the body of the loop for a valid sample.
FoldStatistics(m, dm, index_orders, run, remaining, samples) ==
    [ locals |-> [ m EXCEPT
                     !.run = run,
                     !.num_sample_trials_remaining = remaining,
                     !.current_num_samples = samples,
                     !.errors = IF remaining = 0
                                THEN ComputeMonteCarloGradientComponentError_(
                                         run, samples, m.z_score)
                                ELSE @ ],
      distmat |-> dm, index_orders |-> index_orders ]

\* Faulty variant of FoldGradients: an accepted sample is not counted.
FoldGradientsUncounted(m, dm, g) ==
    FoldStatistics(m, dm, g.index_orders, UpdateStatistics_(m.run, g),
                   m.num_sample_trials_remaining - 1, m.current_num_samples)

FoldGradients(m, dm, g) ==
    FoldStatistics(m, dm, g.index_orders, UpdateStatistics_(m.run, g),
                   m.num_sample_trials_remaining - 1, m.current_num_samples + 1)

FoldDistances(m, dm) == FoldGradients(m, dm, EvalGradients(dm, dm))

FoldSample(m, dm0, ix) ==
    FoldDistances(m, EvalMinMaxSquaredDistancesPoints(dm0, ix))

\* One iteration of the do-while loop (lines 877-945) and, when its
\* condition fails, the return of line 947.
Sample(ix) ==
    /\ pc = "mc"
    /\ ix[0] \in RandInt(tree.begin[mc.tree_nodes[0]], tree.end[mc.tree_nodes[0]])
    /\ ix[1] \in RandInt(tree.begin[mc.tree_nodes[1]], tree.end[mc.tree_nodes[1]])
    /\ ix[2] \in RandInt(tree.begin[mc.tree_nodes[2]], tree.end[mc.tree_nodes[2]])
    /\ indices' = ix
    /\ \E r \in { IF ValidSample(ix) THEN FoldSample(mc, distmat_, ix)
                  ELSE [ locals |-> mc, distmat |-> distmat_,
                         index_orders |-> index_orders_ ] } :
          /\ distmat_' = r.distmat
          /\ index_orders_' = r.index_orders
          /\ IF r.locals.num_sample_trials_remaining > 0
             THEN /\ mc' = r.locals
                  /\ UNCHANGED <<pc, last>>
             ELSE /\ mc' = NoSampling
                  /\ pc' = "idle"
                  /\ last' = [ op |-> "MonteCarloEval",
                               tree_nodes |-> mc.tree_nodes, indices |-> ix,
                               relative_error |-> mc.relative_error,
                               total |-> mc.total, ret |-> r.locals.prunable,
                               evaluated |-> TRUE, pruned |-> FALSE,
                               errors |-> r.locals.errors,
                               bounds |-> NoBounds,
                               samples |-> r.locals.current_num_samples ]
    /\ UNCHANGED <<tree, stat, force, ncalls, par>>

(***************************************************************************)
(* Two callers, each inside a pruning Eval (lines 954-1045) of its own.    *)
(* A caller's Eval is two steps: EvalMinMaxSquaredDistances writes the     *)
(* distance table (line 959), and the rest of the call reads it.  When     *)
(* par.shared holds the callers use the one kernel object, whose members   *)
(* are distmat_ and index_orders_; otherwise caller t has a kernel object  *)
(* of its own, whose distance table is par.own[t].                         *)
(***************************************************************************)
Threads == {1, 2}

NoThreads(shared) ==
    [ shared |-> shared,
      writer |-> 0,
      own |-> [t \in Threads |-> [p \in Slots \X Slots |-> NaN]],
      thread |-> [t \in Threads |->
                    [ pc |-> "idle", tree_nodes |-> Order(1, 1, 1),
                      relative_error |-> <<0, 1>>, done |-> FALSE,
                      ret |-> FALSE, evaluated |-> FALSE,
                      bounds |-> NoBounds, read_from |-> 0 ]] ]

ParTriples == { Order(1, 2, 3), Order(3, 2, 1), Order(1, 1, 2) }
ParTrees == { BoxTree(<<1, 4>>, <<1, 1>>, <<1, 1>>), PointTree }

\* Faulty variant of Scratch: every caller reads the member of the one
\* kernel object.
SharedScratch(t) == distmat_

\* The distance table of the kernel object that caller t uses.
Scratch(t) == IF par.shared THEN distmat_ ELSE par.own[t]

\* Line 959: the caller enters Eval and writes the distance table.
EvalBegin(t, tn, relative_error) ==
    /\ pc = "idle"
    /\ ncalls < MaxCalls
    /\ par.thread[t].pc = "idle"
    /\ distmat_' = IF par.shared
                   THEN EvalMinMaxSquaredDistancesNodes(distmat_, tree, tn)
                   ELSE distmat_
    /\ par' = [ par EXCEPT
                  !.writer = IF par.shared THEN t ELSE @,
                  !.own[t] = IF par.shared THEN @
                             ELSE EvalMinMaxSquaredDistancesNodes(@, tree, tn),
                  !.thread[t] = [ pc |-> "distances", tree_nodes |-> tn,
                                  relative_error |-> relative_error,
                                  done |-> FALSE, ret |-> FALSE,
                                  evaluated |-> FALSE, bounds |-> NoBounds,
                                  read_from |-> 0 ] ]
    /\ ncalls' = ncalls + 1
    /\ UNCHANGED <<tree, stat, force, index_orders_, indices, pc, mc, last>>

\* Lines 961-1044: the rest of the call, from the distance table as the
\* caller finds it.
EvalEnd(t) ==
    /\ par.thread[t].pc = "distances"
    /\ \E r \in { EvalFromDistances(tree, stat, Scratch(t), index_orders_,
                                    par.thread[t].tree_nodes,
                                    par.thread[t].relative_error, 1) } :
          /\ stat' = r.stat
          /\ index_orders_' = IF par.shared THEN r.index_orders ELSE index_orders_
          /\ par' = [ par EXCEPT
                        !.thread[t] = [ @ EXCEPT
                            !.pc = "idle", !.done = TRUE, !.ret = r.ret,
                            !.evaluated = r.evaluated, !.bounds = r.bounds,
                            !.read_from = IF par.shared THEN par.writer ELSE t ] ]
    /\ UNCHANGED <<tree, force, distmat_, indices, pc, mc, last, ncalls>>

(***************************************************************************)
(* The state after construction and Init: a tree with its statistics, no   *)
(* force accumulated, the scratch members unfilled and no call made.       *)
(***************************************************************************)
InitOver(trees, owns) ==
    /\ tree \in trees
    /\ \E own \in owns : stat = [n \in Nodes |-> InitStat(tree, n, own[n])]
    /\ force = ZeroForce
    /\ \E u \in Uninitialized :
          /\ distmat_ = u.distmat
          /\ index_orders_ = u.index_orders
    /\ indices = Order(0, 0, 0)
    /\ pc = "idle"
    /\ mc = NoSampling
    /\ last = NoCall
    /\ ncalls = 0
    /\ par = NoThreads(TRUE)

Init == InitOver(Trees, OwnStats)

Next ==
    \/ \E tn \in NodeTriples, r \in RelativeErrors, z \in ZScores, t \in TotalTuples :
          Eval(tn, r, z, t)
    \/ \E ix \in PointTriples : EvalExact(ix)

Spec == Init /\ [][Next]_vars

\* The sampling fallback on regions whose ranges overlap.
InitMC == InitOver({SampleTree}, {NothingOwned})

NextMC ==
    \/ \E tn \in SampleTriples, r \in SampleErrors, z \in ZScores, t \in TotalTuples :
          MonteCarloEval(tn, r, z, t)
    \/ \E ix \in [Slots -> Points] : Sample(ix)

SpecMC == InitMC /\ [][NextMC]_vars

\* Two callers on one kernel object, or on a kernel object each.
InitPar ==
    /\ tree \in ParTrees
    /\ stat = [n \in Nodes |-> InitStat(tree, n, NothingOwned[n])]
    /\ force = ZeroForce
    /\ \E u \in Uninitialized :
          /\ distmat_ = u.distmat
          /\ index_orders_ = u.index_orders
    /\ indices = Order(0, 0, 0)
    /\ pc = "idle"
    /\ mc = NoSampling
    /\ last = NoCall
    /\ ncalls = 0
    /\ \E shared \in BOOLEAN : par = NoThreads(shared)

NextPar ==
    \/ \E t \in Threads, tn \in ParTriples, r \in SampleErrors : EvalBegin(t, tn, r)
    \/ \E t \in Threads : EvalEnd(t)

SpecPar == InitPar /\ [][NextPar]_vars

\* MonteCarloEval under fair draws: math::RandInt returns every index of
\* a range with positive probability, so a loop that goes on for ever
\* draws, at some time, a triple that passes the test of line 884 if the
\* ranges hold one.
FairTriples == { Order(3, 3, 3), Order(1, 1, 1), Order(2, 1, 3) }

\* A draw of lines 879-881 that passes the test of line 884.
AcceptedDraw ==
    /\ pc = "mc"
    /\ \E ix \in [Slots -> Points] :
          /\ \A s \in Slots : ix[s] \in RandInt(tree.begin[mc.tree_nodes[s]],
                                                tree.end[mc.tree_nodes[s]])
          /\ ValidSample(ix)
          /\ indices' = ix

NextFair ==
    \/ \E tn \in FairTriples, r \in SampleErrors, z \in ZScores, t \in TotalTuples :
          MonteCarloEval(tn, r, z, t)
    \/ \E ix \in [Slots -> Points] : Sample(ix)

\* Weak fairness of the accepted draw, WF_vars(AcceptedDraw), written out:
\* the draw is possible exactly inside the loop of a call whose ranges
\* hold an increasing triple.
AcceptedDrawPossible ==
    /\ pc = "mc"
    /\ \E ix \in [Slots -> Points] :
          /\ \A s \in Slots : ix[s] \in RandInt(tree.begin[mc.tree_nodes[s]],
                                                tree.end[mc.tree_nodes[s]])
          /\ ValidSample(ix)

FairDraws == []<>(~AcceptedDrawPossible) \/ []<><<AcceptedDraw>>_vars

SpecFair == InitMC /\ [][NextFair]_vars /\ FairDraws

(***************************************************************************)
(* Properties of the deterministic Eval.                                   *)
(***************************************************************************)
\* A step that is a call of the pruning Eval.
EvalStep == last'.op = "Eval" /\ ncalls' = ncalls + 1

DistinctRegions(tn) == tn[0] # tn[1] /\ tn[0] # tn[2] /\ tn[1] # tn[2]

\* C1: the pruning Eval returns true exactly when it has changed the
\* regions' statistics; when it returns false every field of every region
\* is as it was at the start of the call.
C1_TrueIffPropagated ==
    [][EvalStep => (last'.ret <=> stat' # stat)]_vars

C1_Witness ==
    /\ last.op = "Eval"
    /\ last.ret
    /\ tree # PointTree
    /\ stat[last.tree_nodes[0]].postponed_negative_gradient1_e < 0

\* C2: the pruning Eval returns false, without evaluating any gradient
\* bound, when the minimum squared distance of some pair of the three
\* regions is zero, and returns false when one of the twelve gradient
\* bounds is NaN or infinite, whatever the budget and the statistics.
C2_ZeroOrNonFiniteIsFalse ==
    [][EvalStep =>
         LET tn == last'.tree_nodes
             g == last'.bounds
         IN  /\ (\E i \in 0..1 : \E j \in (i + 1)..2 :
                     MinDistanceSq(tree, tn[i], tn[j]) = 0)
                  => /\ ~last'.ret
                     /\ ~last'.evaluated
                     /\ index_orders_' = index_orders_
                     /\ stat' = stat
             /\ (last'.evaluated /\
                 \E f \in GradientNames : g[f] \in {NaN, PosInf, NegInf})
                  => ~last'.ret /\ stat' = stat]_vars

\* Two different regions that touch, whose statistics would allow a prune.
C2_Witness ==
    /\ last.op = "Eval"
    /\ DistinctRegions(last.tree_nodes)
    /\ MinDistanceSq(tree, 1, 2) = 0
    /\ ~last.evaluated
    /\ ~last.ret
    /\ \A n \in Nodes : stat[n].positive_gradient1_l > 0

(***************************************************************************)
(* Properties of ComputeNumTwoTuples_, Prunable_ and the error budget.     *)
(***************************************************************************)
MaxCount == 3

Choose2(m) == (m * (m - 1)) \div 2

\* What the three patterns of regions are to count, for the counts cnt.
ConformingCounts(tn, cnt, n) ==
    LET a == cnt[tn[0]]
        b == cnt[tn[1]]
        c == cnt[tn[2]]
    IN  /\ (tn[0] = tn[1] /\ tn[1] = tn[2]) =>
              /\ n.num_jk_pairs = Choose2(a - 1)
              /\ n.num_ik_pairs = Choose2(a - 1)
              /\ n.num_ij_pairs = Choose2(a - 1)
        /\ (tn[0] = tn[1] /\ tn[1] # tn[2]) =>
              /\ n.num_jk_pairs = (a - 1) * c
              /\ n.num_ik_pairs = (a - 1) * c
              /\ n.num_ij_pairs = Choose2(a)
        /\ DistinctRegions(tn) =>
              /\ n.num_jk_pairs = b * c
              /\ n.num_ik_pairs = a * c
              /\ n.num_ij_pairs = a * b

\* C3: the pair counts MonteCarloEval gets from ComputeNumTwoTuples_ are
\* C(a-1, 2) three times for one region of size a in all slots; (a-1)*b,
\* (a-1)*b and C(a, 2) for slot 0 = slot 1 of size a and another region of
\* size b in slot 2; b*c, a*c and a*b for three different regions.  The
\* same holds of ComputeNumTwoTuples_ for all counts up to MaxCount.
C3_PairCounts ==
    pc = "mc" =>
       /\ ConformingCounts(mc.tree_nodes, Count(tree),
                           [ num_jk_pairs |-> mc.num_jk_pairs,
                             num_ik_pairs |-> mc.num_ik_pairs,
                             num_ij_pairs |-> mc.num_ij_pairs ])
       /\ mc.current_num_samples = 0 =>
             \A cnt \in [Nodes -> 1..MaxCount] :
                ConformingCounts(mc.tree_nodes, cnt,
                                 ComputeNumTwoTuples_(mc.tree_nodes, cnt))

C3_Witness ==
    /\ pc = "mc"
    /\ mc.tree_nodes = Order(3, 3, 3)
    /\ Count(tree)[3] = 3
    /\ mc.num_ij_pairs = 1

\* Errors to test the budget with: those of the last call, and errors
\* that are large only for the third gradient.
ErrorSamples ==
    { last.errors,
      [ negative_gradient1_error |-> 1000, positive_gradient1_error |-> 1000,
        negative_gradient2_error |-> 1000, positive_gradient2_error |-> 1000,
        negative_gradient3_error |-> 9000, positive_gradient3_error |-> 9000 ] }

\* The conjunction of the three slot tests, a slot that holds the region
\* of the slot before it taking that slot's verdict.
SlotConjunction(st, tn, cnt, e, n, relative_error, total) ==
    LET first == first_node_prunable(st, tn, cnt, e, n, relative_error, total)
        second == IF tn[1] = tn[0] THEN first
                  ELSE second_node_test(st, tn, cnt, e, n, relative_error, total)
        third == IF tn[2] = tn[1] THEN second
                 ELSE third_node_test(st, tn, cnt, e, n, relative_error, total)
    IN  first /\ second /\ third

\* C4: Prunable_ is the conjunction of the three slot tests, with the
\* verdict of a slot reused for the next slot when both hold the same
\* region; the pruning Eval returns that conjunction, and a call in which
\* Prunable_ answered false leaves the statistics as they were.
C4_PrunableIsConjunction ==
    /\ [](\A tn \in NodeTriples, r \in RelativeErrors, e \in ErrorSamples :
             Prunable_(stat, tn, Count(tree), e, EvalPairs(tree, tn), r, 1)
                <=> SlotConjunction(stat, tn, Count(tree), e,
                                    EvalPairs(tree, tn), r, 1))
    /\ [][(EvalStep /\ last'.evaluated /\ ~NonFinite(last'.bounds)) =>
            /\ last'.ret <=> SlotConjunction(stat, last'.tree_nodes, Count(tree),
                                             last'.errors,
                                             EvalPairs(tree, last'.tree_nodes),
                                             last'.relative_error, last'.total)
            /\ ~last'.ret => stat' = stat]_vars

\* The first two slots hold one region and the verdict of the first slot
\* is reused although the test of the second slot would fail.
C4_Witness ==
    \E e \in ErrorSamples :
       LET tn == Order(1, 1, 2)
           n == EvalPairs(tree, tn)
       IN  /\ Prunable_(stat, tn, Count(tree), e, n, <<1, 1>>, 1)
           /\ ~second_node_test(stat, tn, Count(tree), e, n, <<1, 1>>, 1)
           /\ last.op = "Eval"

\* relative_error as a rational, and the order of the rationals.
Budgets == { <<0, 1>>, <<1, 2>>, <<1, 1>>, <<2, 1>> }
AtMost(r, s) == r[1] * s[2] <= s[1] * r[2]

\* C5: for fixed regions, counts, statistics, errors and normalizer, a
\* triple that is prunable at a relative error is prunable at every larger
\* one (and so one that is not prunable is not prunable at any smaller one).
C5_MonotonicInRelativeError ==
    \A tn \in NodeTriples, e \in ErrorSamples :
       LET prunable == { r \in Budgets :
                           Prunable_(stat, tn, Count(tree), e,
                                     EvalPairs(tree, tn), r, 1) }
       IN  \A r \in prunable, s \in Budgets : AtMost(r, s) => s \in prunable

\* The last call found its triple not prunable at 1/2; at 1 it is prunable.
C5_Witness ==
    /\ last.op = "Eval"
    /\ last.evaluated
    /\ ~last.ret
    /\ last.relative_error = <<1, 2>>
    /\ Prunable_(stat, last.tree_nodes, Count(tree), last.errors,
                 EvalPairs(tree, last.tree_nodes), <<1, 1>>, last.total)

(***************************************************************************)
(* The point estimate of a prune.                                          *)
(***************************************************************************)
Between(lo, x, hi) == lo <= x /\ x <= hi

\* C6: when the pruning Eval returns true, the midpoint of each of the six
\* pairs of gradient bounds, which Prune_ adds to the _e statistics, lies
\* between the two bounds; and every pair of bounds that gradient_ computes
\* from distances with 0 < min <= max, when neither is NaN, has min <= max.
C6_MidpointWithinBounds ==
    [][(EvalStep /\ last'.evaluated) =>
         \A k \in 1..3 :
            LET b == Bounds(last'.bounds, k)
            IN  /\ last'.ret =>
                     /\ Between(b.min_negative,
                                Half(b.min_negative + b.max_negative),
                                b.max_negative)
                     /\ Between(b.min_positive,
                                Half(b.min_positive + b.max_positive),
                                b.max_positive)
                /\ (~isnan(b.min_negative) /\ ~isnan(b.max_negative))
                     => b.min_negative <= b.max_negative
                /\ (~isnan(b.min_positive) /\ ~isnan(b.max_positive))
                     => b.min_positive <= b.max_positive]_vars

\* A prune of regions whose bounds are proper intervals.
C6_Witness ==
    /\ last.op = "Eval"
    /\ last.ret
    /\ \A k \in 1..3 :
          /\ Bounds(last.bounds, k).min_negative < Bounds(last.bounds, k).max_negative
          /\ Bounds(last.bounds, k).min_positive < Bounds(last.bounds, k).max_positive

\* The point of a single-point region.
PointOf(n) == tree.begin[n]

VectorSum(x, y) == [i \in 1..Dim |-> x[i] + y[i]]

\* C7: for three different single-point regions, a pruning Eval that
\* returns true adds to the postponed _e statistics of each region what the
\* exact Eval of the three points adds to the force1_e and force2_e entries
\* of that region's point.
C7_PruneOfPointsIsExact ==
    [][(EvalStep /\ last'.ret /\ tree = PointTree) =>
         LET tn == last'.tree_nodes
             exact == ExactOutcome(ZeroForce, distmat_,
                                   [s \in Slots |-> PointOf(tn[s])]).force
         IN  \A s \in Slots :
                LET old == stat[tn[s]]
                    new == stat'[tn[s]]
                    p == PointOf(tn[s])
                IN  /\ new.postponed_negative_gradient1_e =
                         old.postponed_negative_gradient1_e + exact.negative_force1_e[p]
                    /\ new.postponed_positive_gradient1_e =
                         old.postponed_positive_gradient1_e + exact.positive_force1_e[p]
                    /\ new.postponed_negative_gradient2_e =
                         VectorSum(old.postponed_negative_gradient2_e,
                                   exact.negative_force2_e[p])
                    /\ new.postponed_positive_gradient2_e =
                         VectorSum(old.postponed_positive_gradient2_e,
                                   exact.positive_force2_e[p])]_vars

\* Two prunes of point regions, so that the second adds to statistics that
\* hold the first.
C7_Witness ==
    /\ tree = PointTree
    /\ last.op = "Eval"
    /\ last.ret
    /\ DistinctRegions(last.tree_nodes)
    /\ ncalls = 2
    /\ stat[1].postponed_negative_gradient1_e < -918

(***************************************************************************)
(* Properties of MonteCarloEval.                                           *)
(***************************************************************************)
Increasing(ix) == ix[0] < ix[1] /\ ix[1] < ix[2]

\* C8: inside the sampling loop, a draw that is not strictly increasing
\* changes no running statistic, no counter and no scratch member; so every
\* draw that is folded in is strictly increasing, and it is counted once.
C8_OnlyIncreasingDrawsCount ==
    [][pc = "mc" =>
         /\ ~Increasing(indices') =>
               /\ mc' = mc
               /\ pc' = pc
               /\ distmat_' = distmat_
               /\ index_orders_' = index_orders_
         /\ (mc' # mc /\ pc' = "mc") =>
               /\ Increasing(indices')
               /\ mc'.current_num_samples = mc.current_num_samples + 1
               /\ mc'.num_sample_trials_remaining =
                     mc.num_sample_trials_remaining - 1
         /\ pc' = "idle" => Increasing(indices')]_vars

\* A draw with a repeated index after some samples were folded in.
C8_Witness ==
    /\ pc = "mc"
    /\ mc.current_num_samples > 0
    /\ indices[0] = indices[1]

\* What Prunable_ answers for the errors a MonteCarloEval call ended with.
SampledPrunable ==
    Prunable_(stat, last.tree_nodes, Count(tree), last.errors,
              ComputeNumTwoTuples_(last.tree_nodes, Count(tree)),
              last.relative_error, last.total)

\* C9: a MonteCarloEval call whose batch ends with errors that satisfy
\* Prunable_ has propagated its estimate and returned true.
C9_PrunesWhenBatchSatisfies ==
    (last.op = "MonteCarloEval" /\ last.samples = BatchSize /\ SampledPrunable)
        => last.ret /\ \E n \in Nodes : stat[n].postponed_negative_gradient1_e # 0

\* C10: a MonteCarloEval call whose batch ends with errors that do not
\* satisfy Prunable_ does not return after that single batch.
C10_NewBatchWhenNotSatisfied ==
    ~(/\ last.op = "MonteCarloEval"
      /\ ~SampledPrunable
      /\ ~last.ret
      /\ last.samples = BatchSize)

(***************************************************************************)
(* The scratch members between calls.                                      *)
(***************************************************************************)
ExactStep == last'.op = "EvalExact" /\ ncalls' = ncalls + 1

\* The locals of a MonteCarloEval call that has folded in no sample yet.
FirstSample ==
    [ NoSampling EXCEPT !.z_score = 2, !.num_sample_trials_remaining = BatchSize ]

\* C11: what a call returns and what it does to the statistics and to the
\* force buffers is the same whatever distmat_ and index_orders_ held when
\* the call began: a pruning Eval, an exact Eval and the loop body of
\* MonteCarloEval give, from the scratch contents that earlier calls left,
\* what they give from any unfilled scratch.
C11_NoStateSurvives ==
    /\ [][EvalStep =>
            \A u \in Uninitialized :
               \E r \in { EvalOutcome(tree, stat, u.distmat, u.index_orders,
                                      last'.tree_nodes, last'.relative_error,
                                      last'.total) } :
                  /\ r.ret = last'.ret
                  /\ r.stat = stat'
                  /\ r.bounds = last'.bounds]_vars
    /\ [][ExactStep =>
            \A u \in Uninitialized :
               ExactOutcome(force, u.distmat, last'.indices).force = force']_vars
    /\ [](FoldSample(FirstSample, distmat_, Order(0, 1, 2)).locals =
             FoldSample(FirstSample, [p \in Slots \X Slots |-> NaN],
                        Order(0, 1, 2)).locals)

\* A prune by a call that found in the scratch members what an exact Eval
\* of three points had left there.
C11_Witness ==
    /\ ncalls = 2
    /\ last.op = "Eval"
    /\ last.ret
    /\ force # ZeroForce
    /\ tree # PointTree

(***************************************************************************)
(* What a prune writes.                                                    *)
(***************************************************************************)
NotPostponed ==
    { "negative_gradient1_u", "positive_gradient1_l", "negative_gradient2_u",
      "positive_gradient2_l", "coordinate_sum_", "l1_norm_coordinate_sum_" }

\* From the statistics old to the statistics new, only postponed_* fields
\* of the regions in the slots of tn changed.
OnlyPostponedOf(tn, old, new) ==
    \A n \in Nodes :
       /\ n \notin {tn[0], tn[1], tn[2]} => new[n] = old[n]
       /\ \A f \in NotPostponed : new[n][f] = old[n][f]

\* C12: a pruning Eval that returns true changes only postponed_* fields
\* of the three regions of its triple and leaves the tree (counts, ranges,
\* bounds) as it is; and Prune_, applied to any triple of regions with the
\* bounds of the last call, changes only postponed_* fields of the regions
\* in the slots.
C12_PruneWritesOnlyPostponed ==
    /\ [][(EvalStep /\ last'.ret) =>
            /\ tree' = tree
            /\ OnlyPostponedOf(last'.tree_nodes, stat, stat')]_vars
    /\ [](~NonFinite(last.bounds) =>
            \A tn \in NodeTriples :
               OnlyPostponedOf(tn, stat,
                               Prune_(stat, tn, Count(tree), last.bounds,
                                      EvalPairs(tree, tn))))

\* A prune of regions that have accumulated gradients of their own, on a
\* tree where a prune of regions 1, 1 and 2 would leave region 3 alone.
C12_Witness ==
    /\ last.op = "Eval"
    /\ last.ret
    /\ \A n \in Nodes : /\ stat[n].postponed_negative_gradient1_u < 0
                        /\ stat[n].negative_gradient1_u < 0
    /\ Prune_(stat, Order(1, 1, 2), Count(tree), last.bounds,
              EvalPairs(tree, Order(1, 1, 2)))[3] = stat[3]
    /\ Prune_(stat, Order(1, 1, 2), Count(tree), last.bounds,
              EvalPairs(tree, Order(1, 1, 2)))[1] # stat[1]

\* The three slot updates of Prune_, applied in the order <<x, y, z>>.
SlotUpdate(s, st, tn, cnt, g, n) ==
    CASE s = 0 -> PruneFirstNode(st, tn, cnt, g, n)
      [] s = 1 -> PruneSecondNode(st, tn, cnt, g, n)
      [] s = 2 -> PruneThirdNode(st, tn, cnt, g, n)

PruneInOrder(o, st, tn, cnt, g, n) ==
    SlotUpdate(o[3], SlotUpdate(o[2], SlotUpdate(o[1], st, tn, cnt, g, n),
                                tn, cnt, g, n),
               tn, cnt, g, n)

SlotOrders ==
    { <<0, 1, 2>>, <<0, 2, 1>>, <<1, 0, 2>>, <<1, 2, 0>>, <<2, 0, 1>>, <<2, 1, 0>> }

EvalEndStep(t) == par.thread[t].pc = "distances" /\ par'.thread[t].pc = "idle"

\* What the call of caller t gives when nothing runs between its steps.
Sequential(t) ==
    EvalOutcome(tree, stat, [p \in Slots \X Slots |-> NaN], Order(0, 0, 0),
                par.thread[t].tree_nodes, par.thread[t].relative_error, 1)

\* C14: with a kernel object per caller, every call returns, computes and
\* propagates what it does when it runs alone, whatever the other caller
\* does between its steps; on one kernel object a call can differ from
\* that, and when it does the distance table it read was written by the
\* other caller.
C14_SharedScratchIsUnsafe ==
    [][\A t \in Threads :
          EvalEndStep(t) =>
             \E seq \in { Sequential(t) } :
                /\ ~par.shared =>
                      /\ par'.thread[t].ret = seq.ret
                      /\ par'.thread[t].bounds = seq.bounds
                      /\ stat' = seq.stat
                /\ (par.shared /\ (par'.thread[t].ret # seq.ret
                                      \/ par'.thread[t].bounds # seq.bounds
                                      \/ stat' # seq.stat))
                      => par.writer # t]_vars

\* On one kernel object: a caller whose triple holds a region twice, and
\* which alone is never pruned, has pruned it with the bounds of the other
\* caller's triple.
C14_Witness ==
    \E t \in Threads :
       /\ par.shared
       /\ par.thread[t].done
       /\ par.thread[t].tree_nodes = Order(1, 1, 2)
       /\ par.thread[t].ret
       /\ par.thread[t].read_from # t
       /\ stat[1].postponed_negative_gradient1_e # 0

(***************************************************************************)
(* The zero test before the gradients.                                     *)
(***************************************************************************)
\* C15: a call whose distance table holds a zero minimum squared distance
\* does not evaluate the gradients: a pruning Eval returns before them, and
\* an exact Eval adds nothing to the force buffers.
C15_ZeroTestBeforeGradients ==
    [][((EvalStep \/ ExactStep) /\ ZeroMinimum(distmat_')) =>
          /\ ~last'.evaluated
          /\ force' = force]_vars

FirstSlots(tn) == { s \in Slots : \A r \in 0..(s - 1) : tn[r] # tn[s] }

SlotTest(s, st, tn, cnt, e, n, relative_error, total) ==
    CASE s = 0 -> first_node_prunable(st, tn, cnt, e, n, relative_error, total)
      [] s = 1 -> second_node_test(st, tn, cnt, e, n, relative_error, total)
      [] s = 2 -> third_node_test(st, tn, cnt, e, n, relative_error, total)

\* The slots of region r whose update by Prune_ changes the statistics.
ChargedSlots(r, st, tn, cnt, g, n) ==
    { s \in Slots : tn[s] = r /\ SlotUpdate(s, st, tn, cnt, g, n) # st }

OncePerRegion(tn) ==
    /\ \A r \in { tn[s] : s \in Slots } :
          Cardinality(ChargedSlots(r, stat, tn, Count(tree), last.bounds,
                                   EvalPairs(tree, tn))) = 1
    /\ Prunable_(stat, tn, Count(tree), last.errors, EvalPairs(tree, tn),
                 last.relative_error, last.total)
          = \A s \in FirstSlots(tn) :
               SlotTest(s, stat, tn, Count(tree), last.errors,
                        EvalPairs(tree, tn), last.relative_error, last.total)

first_node_uniform(st, tn, cnt, e, n, relative_error, total) ==
    /\ WithinBudget(e.negative_gradient1_error + e.negative_gradient2_error,
                    relative_error, 1, total,
                    fabs(st[tn[0]].negative_gradient1_u +
                         st[tn[0]].postponed_negative_gradient1_u))
    /\ WithinBudget(e.positive_gradient1_error + e.positive_gradient2_error,
                    relative_error, 1, total,
                    st[tn[0]].positive_gradient1_l +
                    st[tn[0]].postponed_positive_gradient1_l)
    /\ WithinBudget(cnt[tn[2]] * st[tn[1]].l1_norm_coordinate_sum_ *
                        e.negative_gradient1_error +
                    cnt[tn[1]] * st[tn[2]].l1_norm_coordinate_sum_ *
                        e.negative_gradient2_error,
                    relative_error, n.num_jk_pairs, total,
                    L1Norm_(st[tn[0]].negative_gradient2_u) +
                    L1Norm_(st[tn[0]].postponed_negative_gradient2_u))
    /\ WithinBudget(cnt[tn[2]] * st[tn[1]].l1_norm_coordinate_sum_ *
                        e.positive_gradient1_error +
                    cnt[tn[1]] * st[tn[2]].l1_norm_coordinate_sum_ *
                        e.positive_gradient2_error,
                    relative_error, n.num_jk_pairs, total,
                    L1Norm_(st[tn[0]].positive_gradient2_l) +
                    L1Norm_(st[tn[0]].postponed_positive_gradient2_l))

\* Prunable_ with the uniform test of the first slot.
PrunableUniform(st, tn, cnt, e, n, relative_error, total) ==
    /\ first_node_uniform(st, tn, cnt, e, n, relative_error, total)
    /\ tn[1] = tn[0] \/ second_node_test(st, tn, cnt, e, n, relative_error, total)
    /\ tn[2] = tn[1] \/ third_node_test(st, tn, cnt, e, n, relative_error, total)

\* C18: a pruning Eval that reaches the prune test answers as the test
\* answers in which all four inequalities of every slot have the region's
\* own value plus what is postponed to it as their budget.
C18_OwnPlusPostponedBudgets ==
    [][(EvalStep /\ last'.evaluated /\ ~NonFinite(last'.bounds)) =>
         last'.ret = PrunableUniform(stat, last'.tree_nodes, Count(tree),
                                     last'.errors, EvalPairs(tree, last'.tree_nodes),
                                     last'.relative_error, last'.total)]_vars

(***************************************************************************)
(* The amounts that Prune_ postpones to a slot's region.                   *)
(***************************************************************************)
\* The two gradients that touch slot s and the pair count that weights them.
SlotGradients(s) == CASE s = 0 -> <<1, 2>> [] s = 1 -> <<1, 3>> [] s = 2 -> <<2, 3>>

SlotPairs(s, n) ==
    CASE s = 0 -> n.num_jk_pairs [] s = 1 -> n.num_ik_pairs [] s = 2 -> n.num_ij_pairs

Gradient(g, k, f) ==
    CASE f = "min_negative" ->
           (CASE k = 1 -> g.min_negative_gradient1 [] k = 2 -> g.min_negative_gradient2
              [] k = 3 -> g.min_negative_gradient3)
      [] f = "max_negative" ->
           (CASE k = 1 -> g.max_negative_gradient1 [] k = 2 -> g.max_negative_gradient2
              [] k = 3 -> g.max_negative_gradient3)
      [] f = "min_positive" ->
           (CASE k = 1 -> g.min_positive_gradient1 [] k = 2 -> g.min_positive_gradient2
              [] k = 3 -> g.min_positive_gradient3)
      [] f = "max_positive" ->
           (CASE k = 1 -> g.max_positive_gradient1 [] k = 2 -> g.max_positive_gradient2
              [] k = 3 -> g.max_positive_gradient3)

\* The scalar accumulators of a region before (old) and after (new) the
\* update of slot s with the gradients a and b and the pair count n.
ScalarGrowth(old, new, a, b, n, g) ==
    /\ new.postponed_negative_gradient1_e - old.postponed_negative_gradient1_e =
          n * Half(Gradient(g, a, "min_negative") + Gradient(g, a, "max_negative") +
                   Gradient(g, b, "min_negative") + Gradient(g, b, "max_negative"))
    /\ new.postponed_positive_gradient1_e - old.postponed_positive_gradient1_e =
          n * Half(Gradient(g, a, "min_positive") + Gradient(g, a, "max_positive") +
                   Gradient(g, b, "min_positive") + Gradient(g, b, "max_positive"))
    /\ new.postponed_negative_gradient1_u - old.postponed_negative_gradient1_u =
          n * (Gradient(g, a, "max_negative") + Gradient(g, b, "max_negative"))
    /\ new.postponed_positive_gradient1_l - old.postponed_positive_gradient1_l =
          n * (Gradient(g, a, "min_positive") + Gradient(g, b, "min_positive"))

SlotIsUpdated(s, tn) == s = 0 \/ tn[s] # tn[s - 1]

\* C19: a pruning Eval that returns true has added, to the region of each
\* slot, n * 0.5 * (min_a + max_a + min_b + max_b) to the exact accumulators,
\* n * (max_a + max_b) to the upper bound of the negative part and
\* n * (min_a + min_b) to the lower bound of the positive part, with
\* (a, b, n) = (1, 2, jk), (1, 3, ik), (2, 3, ij) for slot 0, 1, 2; and each
\* slot update of Prune_ adds these amounts for every aliasing pattern.
C19_PostponedAmounts ==
    /\ [][(EvalStep /\ last'.ret) =>
            \A s \in Slots :
               ScalarGrowth(stat[last'.tree_nodes[s]], stat'[last'.tree_nodes[s]],
                            SlotGradients(s)[1], SlotGradients(s)[2],
                            SlotPairs(s, EvalPairs(tree, last'.tree_nodes)),
                            last'.bounds)]_vars
    /\ [](~NonFinite(last.bounds) =>
            \A tn \in NodeTriples : \A s \in Slots :
               SlotIsUpdated(s, tn) =>
                  ScalarGrowth(stat[tn[s]],
                               SlotUpdate(s, stat, tn, Count(tree), last.bounds,
                                          EvalPairs(tree, tn))[tn[s]],
                               SlotGradients(s)[1], SlotGradients(s)[2],
                               SlotPairs(s, EvalPairs(tree, tn)), last.bounds))

\* A prune with a pair count of two for the second slot and bounds whose
\* mean is not their maximum.
C19_Witness ==
    /\ last.op = "Eval"
    /\ last.ret
    /\ SlotPairs(1, EvalPairs(tree, last.tree_nodes)) = 2
    /\ last.bounds.min_negative_gradient3 < last.bounds.max_negative_gradient3
    /\ stat[last.tree_nodes[1]].postponed_negative_gradient1_e
          # stat[last.tree_nodes[1]].postponed_negative_gradient1_u

(***************************************************************************)
(* The shares of the three points in the exact Eval.                       *)
(***************************************************************************)
\* old grown by a * xa + b * xb, coordinate by coordinate.
VectorShare(old, a, xa, b, xb) ==
    [i \in 1..Len(old) |-> XAdd(XAdd(old[i], XMul(a, xa[i])), XMul(b, xb[i]))]

\* Point p has received the gradients (na, pa) along the axis to the point
\* at xa and (nb, pb) along the axis to the point at xb.
PointShare(f, fn, p, na, pa, xa, nb, pb, xb) ==
    /\ fn.negative_force1_e[p] = XAdd(f.negative_force1_e[p], XAdd(na, nb))
    /\ fn.negative_force1_u[p] = XAdd(f.negative_force1_u[p], XAdd(na, nb))
    /\ fn.positive_force1_e[p] = XAdd(f.positive_force1_e[p], XAdd(pa, pb))
    /\ fn.positive_force1_l[p] = XAdd(f.positive_force1_l[p], XAdd(pa, pb))
    /\ fn.negative_force2_e[p] = VectorShare(f.negative_force2_e[p], na, xa, nb, xb)
    /\ fn.negative_force2_u[p] = VectorShare(f.negative_force2_u[p], na, xa, nb, xb)
    /\ fn.positive_force2_e[p] = VectorShare(f.positive_force2_e[p], pa, xa, pb, xb)
    /\ fn.positive_force2_l[p] = VectorShare(f.positive_force2_l[p], pa, xa, pb, xb)

\* C20: the exact Eval on the points (p0, p1, p2), with the gradients g1,
\* g2, g3 of the axes p0-p1, p0-p2, p1-p2, adds g1 + g2, g1 + g3, g2 + g3 to
\* the scalar buffers of p0, p1, p2 and g1 * x(p1) + g2 * x(p2),
\* g1 * x(p0) + g3 * x(p2), g2 * x(p0) + g3 * x(p1) to their vector buffers,
\* the same to the bound buffers as to the exact ones, and leaves the
\* entries of every other point as they were.
C20_SharesOfTheThreePoints ==
    [][ExactStep =>
         \E g \in { EvalGradients(distmat_', distmat_') }, ix \in { last'.indices } :
            /\ PointShare(force, force', ix[0],
                          g.min_negative_gradient1, g.min_positive_gradient1, Data[ix[1]],
                          g.min_negative_gradient2, g.min_positive_gradient2, Data[ix[2]])
            /\ PointShare(force, force', ix[1],
                          g.min_negative_gradient1, g.min_positive_gradient1, Data[ix[0]],
                          g.min_negative_gradient3, g.min_positive_gradient3, Data[ix[2]])
            /\ PointShare(force, force', ix[2],
                          g.min_negative_gradient2, g.min_positive_gradient2, Data[ix[0]],
                          g.min_negative_gradient3, g.min_positive_gradient3, Data[ix[1]])
            /\ \A p \in Points \ { ix[s] : s \in Slots } :
                  \A b \in DOMAIN force : force'[b][p] = force[b][p]]_vars

\* The second call of a run, an exact one on the points (2, 1, 0): the
\* buffers of point 1 hold finite shares that are not zero and point 3
\* holds nothing.
C20_Witness ==
    /\ last.op = "EvalExact"
    /\ ncalls = 2
    /\ last.indices = Order(2, 1, 0)
    /\ force.negative_force1_e[1] < 0
    /\ force.negative_force1_e[1] > NegInf
    /\ force.positive_force2_l[1] # ZeroVector
    /\ force.negative_force1_e[3] = 0

(***************************************************************************)
(* The table that EvalGradients reads.                                     *)
(***************************************************************************)
\* The distance tables of the triples of three different regions.
ArgumentTables ==
    { EvalMinMaxSquaredDistancesNodes(distmat_, tree, tn) :
         tn \in { t \in NodeTriples : DistinctRegions(t) } }

C22_CountersOfTheBatch ==
    /\ [](pc = "mc" =>
            /\ mc.current_num_samples + mc.num_sample_trials_remaining = 25
            /\ mc.num_sample_trials_remaining > 0)
    /\ [][(pc = "mc" /\ ~ValidSample(indices')) =>
             /\ mc' = mc
             /\ pc' = "mc"]_vars
    /\ [][(pc = "mc" /\ pc' = "mc") => mc'.errors = NoErrors]_vars
    /\ [][(pc = "mc" /\ pc' = "idle") =>
             /\ last'.samples = BatchSize
             /\ last'.samples >= 2
             /\ last'.errors =
                   ComputeMonteCarloGradientComponentError_(
                       UpdateStatistics_(mc.run, EvalGradients(distmat_', distmat_')),
                       BatchSize, mc.z_score)]_vars

\* Inside a batch with two samples taken, after a draw that was rejected.
C22_Witness ==
    /\ pc = "mc"
    /\ mc.current_num_samples = 2
    /\ mc.num_sample_trials_remaining = 23
    /\ ~ValidSample(indices)

(***************************************************************************)
(* Triples that hold a region twice.                                       *)
(***************************************************************************)
\* C23: a pruning Eval on a triple in which two slots hold the same region
\* finds a zero minimum squared distance in its table and returns false
\* with no gradient evaluated and no statistic changed; every pruning Eval
\* that returns true is on three different regions.
C23_AliasedTriplesAreNotPruned ==
    [][EvalStep =>
         /\ ~DistinctRegions(last'.tree_nodes) =>
               /\ \E i \in 0..1 : \E j \in (i + 1)..2 :
                     /\ last'.tree_nodes[i] = last'.tree_nodes[j]
                     /\ distmat_'[<<i, j>>] = 0
               /\ ~last'.ret
               /\ ~last'.evaluated
               /\ ~last'.pruned
               /\ stat' = stat
         /\ (last'.ret \/ last'.pruned) => DistinctRegions(last'.tree_nodes)]_vars

\* After a prune: a call on a triple whose first and third slot are the
\* same region has returned false before the gradients.
C23_Witness ==
    /\ last.op = "Eval"
    /\ ncalls = 2
    /\ last.tree_nodes = Order(1, 2, 1)
    /\ distmat_[<<0, 2>>] = 0
    /\ distmat_[<<0, 1>>] > 0
    /\ ~last.ret
    /\ stat[1].postponed_positive_gradient1_l > 0

(***************************************************************************)
(* The order of the postponed scalar accumulators.                         *)
(***************************************************************************)
PostponedInOrder(s) ==
    /\ s.postponed_negative_gradient1_e <= s.postponed_negative_gradient1_u
    /\ s.postponed_negative_gradient1_u <= 0
    /\ 0 <= s.postponed_positive_gradient1_l
    /\ s.postponed_positive_gradient1_l <= s.postponed_positive_gradient1_e

\* C24: after any sequence of calls of the pruning Eval, from postponed
\* statistics of zero, every region has postponed_negative_gradient1_e <=
\* postponed_negative_gradient1_u <= 0 and 0 <=
\* postponed_positive_gradient1_l <= postponed_positive_gradient1_e; and
\* no call makes postponed_positive_gradient1_l smaller or
\* postponed_negative_gradient1_u greater.
C24_PostponedBoundsAreOrdered ==
    /\ [](\A n \in Nodes : PostponedInOrder(stat[n]))
    /\ [][\A n \in Nodes :
            /\ stat'[n].postponed_positive_gradient1_l
                  >= stat[n].postponed_positive_gradient1_l
            /\ stat'[n].postponed_negative_gradient1_u
                  <= stat[n].postponed_negative_gradient1_u]_vars

\* Two calls, the second a prune with bounds that differ, after which a
\* region has its four accumulators strictly in order.
C24_Witness ==
    /\ last.op = "Eval"
    /\ last.ret
    /\ ncalls = 2
    /\ last.bounds.min_positive_gradient1 < last.bounds.max_positive_gradient1
    /\ \E n \in Nodes :
          /\ stat[n].postponed_negative_gradient1_e < stat[n].postponed_negative_gradient1_u
          /\ stat[n].postponed_negative_gradient1_u < 0
          /\ 0 < stat[n].postponed_positive_gradient1_l
          /\ stat[n].postponed_positive_gradient1_l < stat[n].postponed_positive_gradient1_e

(***************************************************************************)
(* Termination of MonteCarloEval.                                          *)
(***************************************************************************)
\* The ranges of the three regions hold indices i < j < k.
Admits(tn) ==
    \E i \in tree.begin[tn[0]]..(tree.end[tn[0]] - 1) :
       \E j \in tree.begin[tn[1]]..(tree.end[tn[1]] - 1) :
          \E k \in tree.begin[tn[2]]..(tree.end[tn[2]] - 1) : i < j /\ j < k

\* C25: under fair draws a call of MonteCarloEval on regions whose ranges
\* hold a strictly increasing index triple returns; a call on regions whose
\* ranges hold none never leaves the loop, and none of its locals changes.
C25_TerminatesIffAdmits ==
    /\ (pc = "mc" /\ Admits(mc.tree_nodes)) ~> (pc = "idle")
    /\ [][(pc = "mc" /\ ~Admits(mc.tree_nodes)) => (pc' = "mc" /\ mc' = mc)]_vars

\* Inside a call on the regions (2, 1, 3), the range of the first after
\* that of the second, after a draw.
C25_Witness ==
    /\ pc = "mc"
    /\ mc.tree_nodes = Order(2, 1, 3)
    /\ ~Admits(mc.tree_nodes)
    /\ indices = Order(3, 1, 2)
    /\ mc.current_num_samples = 0
    /\ mc.num_sample_trials_remaining = BatchSize

====
